---- MODULE Spec2Model ----
(***************************************************************************)
(* Model of the timetable solver of Arrango (core/solver/solver.go).       *)
(*                                                                         *)
(* Go values are modelled as follows.                                      *)
(*  - A nil pointer is Nil.  The catalogs of subjects, teachers and        *)
(*    classrooms are interned: every name has one address, so a pointer is *)
(*    modelled by the name it points to and pointer equality (solver.go    *)
(*    222-223) by equality of names.                                       *)
(*  - Go indexes from 0, TLA+ sequences from 1: weekday 0..4 is 1..5 here, *)
(*    rand.Intn(n) is a choice in 1..n.                                    *)
(*  - A Day is a Go slice.  Copying a slice header shares its backing      *)
(*    array, so the backing arrays live in heap and an Individual holds,   *)
(*    per division and weekday, the address of one of them.                *)
(***************************************************************************)
EXTENDS Integers, Sequences, FiniteSets, TLC

VARIABLES
    inp,            \* index of the Problem Instance (in input.InputData)
    PopulationSize, \* Solver.PopulationSize
    Generations,    \* Solver.Generations
    MutationRate,   \* Solver.MutationRate, in hundredths
    pc,             \* position of Solve
    heap,           \* backing arrays of the Day slices
    pop,            \* pop: the current population
    bestIndividual, \* bestIndividual
    bestFitness,    \* bestFitness
    g,              \* loop counter of Solve
    fits,           \* fits: the scored generation
    nextPop,        \* nextPop
    result,         \* the timetables Solve returned
    initScores,     \* history: the scores of the initial population
    lastStep,       \* history: what the last step of Solve did
    minSeen,        \* history: the lowest score fitness returned in this run
    first,          \* history: what the previous call of Solve returned
    fInd,           \* evaluator harness: the Individual under evaluation
    fScore,         \* evaluator harness: fitness of fInd
    fPrev,          \* evaluator harness: the Individual before the last edit
    fPrevScore,     \* evaluator harness: fitness of fPrev
    fOp             \* evaluator harness: the last edit

vars == <<inp, PopulationSize, Generations, MutationRate, pc, heap, pop,
          bestIndividual, bestFitness, g, fits, nextPop, result, initScores,
          lastStep, minSeen, first, fInd, fScore, fPrev, fPrevScore, fOp>>

solveVars == <<inp, PopulationSize, Generations, MutationRate, pc, heap, pop,
               bestIndividual, bestFitness, g, fits, nextPop, result,
               initScores, lastStep, minSeen, first>>

\* what a call of Solve leaves alone
harnessVars == <<first, fInd, fScore, fPrev, fPrevScore, fOp>>

----------------------------------------------------------------------------
(* Bounds of the model *)

\* largest generation budget a run is configured with
MaxGen == 3

\* number of edits the evaluator harness applies to an Individual
MaxEdits == 2

\* number of crossover and mutate calls the operator harness makes
MaxOps == 2

----------------------------------------------------------------------------
(* Data model: common/models/input and common/models/output *)

Nil == "nil"

\* output.Days is [5]Day
NumDays == 5

\* output.SubjectsGroup is [3]Subject
GroupWidth == 3

WeekDays == 1..NumDays

\* input.Subject
Subj(gs, alloc, teacher, rooms, group) ==
    [gs |-> gs, alloc |-> alloc, placement |-> "any", teacher |-> teacher,
     rooms |-> rooms, group |-> group]

\* the zero value of output.Subject: an unused parallel position
EmptyLesson == [gs |-> Nil, teacher |-> Nil, room |-> Nil, group |-> Nil]

\* the output.Subject randomIndividual builds (solver.go 127-132)
Lesson(subj, room) ==
    [gs |-> subj.gs, teacher |-> subj.teacher, room |-> room,
     group |-> subj.group]

\* SingleGroup with sg[1] set in place of sg[0]
SingleGroupSecond(les) == <<EmptyLesson, les, EmptyLesson>>

\* output.SubjectsGroup with only sg[0] set (solver.go 126-127)
SingleGroup(les) == <<les, EmptyLesson, EmptyLesson>>

\* a Days value with five empty weekdays (solver.go 112-115)
EmptyDays == [d \in WeekDays |-> <<>>]

----------------------------------------------------------------------------
(* Problem Instances *)

\* Division D0 has on Monday a one-hour lesson followed by a two-hour block
\* in classroom R1; division D1 has on Monday a two-hour block whose lessons
\* each take classroom R1 or R2.
InstBlock ==
    << [name |-> "D0", weight |-> 1, subjects |->
          << Subj("S1", <<1, 1, 1, 1, 1>>, "T1", <<>>, "none"),
             Subj("S2", <<2, 0, 0, 0, 0>>, "T2", <<"R1">>, "none") >>],
       [name |-> "D1", weight |-> 1, subjects |->
          << Subj("S3", <<2, 0, 0, 0, 0>>, "T3", <<"R1", "R2">>, "none") >>] >>

\* Two divisions that need the same sole teacher for five hours each.
InstClash ==
    << [name |-> "D0", weight |-> 1, subjects |->
          << Subj("S1", <<1, 1, 1, 1, 1>>, "T1", <<>>, "none") >>],
       [name |-> "D1", weight |-> 1, subjects |->
          << Subj("S1", <<1, 1, 1, 1, 1>>, "T1", <<>>, "none") >>] >>

\* One division, one subject with allocation [1,0,0,0,0], one teacher and
\* one classroom.
InstSingle ==
    << [name |-> "D0", weight |-> 1, subjects |->
          << Subj("S1", <<1, 0, 0, 0, 0>>, "T1", <<"R1">>, "none") >>] >>

\* No division at all.
InstEmpty == <<>>

\* A division with a subject split in two two-hour blocks, and a division
\* with one four-hour block of a subject without teacher preference rooms.
InstSplit ==
    << [name |-> "D0", weight |-> 1, subjects |->
          << Subj("S1", <<2, 2, 0, 0, 0>>, "T1", <<"R1">>, "one") >>],
       [name |-> "D1", weight |-> 1, subjects |->
          << Subj("S3", <<0, 4, 0, 0, 0>>, "T3", <<>>, "two") >>] >>

\* Two divisions with one hour each of the same teacher, on the same weekday
\* and period: they clash on the teacher, and on classroom R1 if D0 draws it.
InstRank ==
    << [name |-> "D0", weight |-> 1, subjects |->
          << Subj("S1", <<1, 0, 0, 0, 0>>, "T1", <<"R1", "R2">>, "none") >>],
       [name |-> "D1", weight |-> 1, subjects |->
          << Subj("S2", <<1, 0, 0, 0, 0>>, "T1", <<"R1">>, "none") >>] >>

\* One division whose Monday is taken by a two-hour block before a subject
\* with one hour in each of its five allocation entries is placed.
InstStack ==
    << [name |-> "D0", weight |-> 1, subjects |->
          << Subj("S2", <<2, 0, 0, 0, 0>>, "T2", <<>>, "none"),
             Subj("S1", <<1, 1, 1, 1, 1>>, "T1", <<>>, "none") >>] >>

Instances ==
    <<InstBlock, InstClash, InstSingle, InstEmpty, InstSplit, InstRank,
      InstStack>>

Divisions(i) == Instances[i]

----------------------------------------------------------------------------
(* Helpers *)

\* A Go call evaluates its arguments once, before the call.  TLC hands an
\* operator its arguments unevaluated and evaluates them again at every use;
\* CallN evaluates them once, then applies Op.
Call1(Op(_), a) == CHOOSE r \in {Op(x) : x \in {a}} : TRUE

Call2(Op(_, _), a, b) ==
    CHOOSE r \in {Op(x, y) : x \in {a}, y \in {b}} : TRUE

Call4(Op(_, _, _, _), a, b, c, d) ==
    CHOOSE r \in {Op(w, x, y, z) :
                     w \in {a}, x \in {b}, y \in {c}, z \in {d}} : TRUE

RECURSIVE SeqConcat(_)
SeqConcat(ss) ==
    IF ss = <<>> THEN <<>> ELSE Head(ss) \o Call1(SeqConcat, Tail(ss))

RECURSIVE SeqSum(_)
SeqSum(s) == IF s = <<>> THEN 0 ELSE Head(s) + Call1(SeqSum, Tail(s))

SeqMin(s) == CHOOSE x \in {s[i] : i \in DOMAIN s} :
                 \A j \in DOMAIN s : x <= s[j]

SeqMax(s) == CHOOSE x \in {s[i] : i \in DOMAIN s} :
                 \A j \in DOMAIN s : x >= s[j]

----------------------------------------------------------------------------
(* Chunk Extractor *)

\* the chunks of one subject: its non-zero allocation entries from index k
\* on, in order (solver.go 87-94)
RECURSIVE chunksOfSubject(_, _)
chunksOfSubject(subj, k) ==
    IF k > NumDays THEN <<>>
    ELSE (IF subj.alloc[k] > 0
            THEN << [subj |-> subj, size |-> subj.alloc[k]] >>
            ELSE <<>>) \o Call2(chunksOfSubject, subj, k + 1)

extractSubjectChunks(div) ==
    Call1(SeqConcat, [s \in 1..Len(div.subjects) |->
                         chunksOfSubject(div.subjects[s], 1)])

----------------------------------------------------------------------------
(* Candidate Builder *)

\* pickClassroom that may also leave the classroom unset
pickClassroomOrNone(subj) ==
    {subj.rooms[k] : k \in 1..Len(subj.rooms)} \cup {Nil}

\* the outcomes of pickClassroom: any acceptable classroom, nil if none
pickClassroom(subj) ==
    IF Len(subj.rooms) > 0
      THEN {subj.rooms[k] : k \in 1..Len(subj.rooms)}
      ELSE {Nil}

\* the scan of pickLeastLoadedDay from day i on (solver.go 147-152)
RECURSIVE leastLoadedFrom(_, _, _, _)
leastLoadedFrom(days, i, minLoad, minDay) ==
    IF i > NumDays THEN minDay
    ELSE IF Len(days[i]) < minLoad
      THEN Call4(leastLoadedFrom, days, i + 1, Len(days[i]), i)
      ELSE Call4(leastLoadedFrom, days, i + 1, minLoad, minDay)

\* pickLeastLoadedDay that returns the first weekday whatever the loads
pickFirstDay(days) == 1

\* pickLeastLoadedDay (solver.go 144-154)
pickLeastLoadedDay(days) == leastLoadedFrom(days, 2, Len(days[1]), 1)

\* n periods of one chunk: single-lesson groups, each with its own draw of
\* pickClassroom (solver.go 126-133)
RECURSIVE chunkPeriods(_, _)
chunkPeriods(chunk, n) ==
    IF n = 0 THEN {<<>>}
    ELSE {<<SingleGroup(Lesson(chunk.subj, r))>> \o rest :
             r \in pickClassroom(chunk.subj),
             rest \in chunkPeriods(chunk, n - 1)}

\* chunkLessons with the loop of solver.go 125 one pass short
chunkLessonsShort(chunk) == chunkPeriods(chunk, chunk.size - 1)

\* the periods appended for one chunk (solver.go 125-134)
chunkLessons(chunk) == chunkPeriods(chunk, chunk.size)

\* the loop over requiredChunks (solver.go 120-135): every Days value it can
\* end with
RECURSIVE placeChunks(_, _)
placeChunks(chunks, days) ==
    IF chunks = <<>> THEN {days}
    ELSE UNION {Call2(placeChunks, Tail(chunks),
                      [days EXCEPT ![dayIdx] = @ \o ps]) :
                   dayIdx \in {pickLeastLoadedDay(days)},
                   ps \in chunkLessons(Head(chunks))}

\* the timetables randomIndividual can build for the divisions from d on
\* (solver.go 110-138)
RECURSIVE buildFrom(_, _)
buildFrom(divs, d) ==
    IF d > Len(divs) THEN {<<>>}
    ELSE {<<days>> \o rest :
             days \in placeChunks(extractSubjectChunks(divs[d]), EmptyDays),
             rest \in buildFrom(divs, d + 1)}

\* every Individual (as timetable contents) randomIndividual can return
randomIndividual(divs) == Call2(buildFrom, divs, 1)

----------------------------------------------------------------------------
(* Fitness Evaluator *)

\* the lessons of a timetable set in the order fitness visits them
\* (solver.go 175-179), each with its weekday and period index
LessonsOfGroup(day, slot, sg) ==
    [p \in 1..GroupWidth |-> [day |-> day, slot |-> slot, les |-> sg[p]]]

LessonsOfDay(day, periods) ==
    Call1(SeqConcat, [s \in 1..Len(periods) |->
                         LessonsOfGroup(day, s, periods[s])])

LessonsOfDiv(days) ==
    Call1(SeqConcat, [day \in WeekDays |-> LessonsOfDay(day, days[day])])

AllLessons(tts) ==
    Call1(SeqConcat, [d \in 1..Len(tts) |-> LessonsOfDiv(tts[d])])

\* teacherOverlap with the weight of an unmet hour
teacherOverlapLight(teacherUsed, tk, teacher) ==
    IF teacher # Nil /\ <<tk, teacher>> \in teacherUsed THEN 500 ELSE 0

\* the penalty for one lesson's teacher (solver.go 183-189)
teacherOverlap(teacherUsed, tk, teacher) ==
    IF teacher # Nil /\ <<tk, teacher>> \in teacherUsed THEN 1000 ELSE 0

\* the penalty for one lesson's classroom (solver.go 193-199)
classroomOverlap(classroomUsed, tk, room) ==
    IF room # Nil /\ <<tk, room>> \in classroomUsed THEN 1000 ELSE 0

\* teacher/classroom overlaps (solver.go 172-206): the score after visiting
\* the entries es with the maps teacherUsed and classroomUsed
RECURSIVE overlapScore(_, _, _, _)
overlapScore(es, teacherUsed, classroomUsed, score) ==
    IF es = <<>> THEN score
    ELSE LET e  == Head(es)
             tk == <<e.day, e.slot>>
         IN  IF e.les.gs = Nil
               THEN Call4(overlapScore, Tail(es), teacherUsed, classroomUsed,
                          score)
               ELSE Call4(overlapScore, Tail(es),
                        IF e.les.teacher # Nil
                          THEN teacherUsed \cup {<<tk, e.les.teacher>>}
                          ELSE teacherUsed,
                        IF e.les.room # Nil
                          THEN classroomUsed \cup {<<tk, e.les.room>>}
                          ELSE classroomUsed,
                        score + teacherOverlap(teacherUsed, tk, e.les.teacher)
                              + classroomOverlap(classroomUsed, tk,
                                                 e.les.room))

\* placedHour whose comparison of solver.go 222-223 never holds
placedHourUnmatched(remaining, les) == remaining

\* the inner loop over remaining for one placed lesson (solver.go 221-229)
placedHour(remaining, les) ==
    [i \in DOMAIN remaining |->
        IF /\ remaining[i].subj.gs = les.gs
           /\ remaining[i].subj.teacher = les.teacher
           /\ remaining[i].size > 0
          THEN [remaining[i] EXCEPT !.size = @ - 1]
          ELSE remaining[i]]

\* the loops over the lessons of one division (solver.go 215-232)
RECURSIVE countPlaced(_, _)
countPlaced(es, remaining) ==
    IF es = <<>> THEN remaining
    ELSE Call2(countPlaced, Tail(es),
               IF Head(es).les.gs = Nil THEN remaining
               ELSE placedHour(remaining, Head(es).les))

\* the penalty for what is left of the chunks (solver.go 235-239)
unmetPenalty(remaining) ==
    Call1(SeqSum, [i \in DOMAIN remaining |->
                      IF remaining[i].size > 0 THEN remaining[i].size * 500
                      ELSE 0])

\* the penalty for the unmet allocations of division dIdx (solver.go 209-240)
allocationPenalty(tts, divs, dIdx) ==
    Call1(unmetPenalty,
          Call2(countPlaced, LessonsOfDiv(tts[dIdx]),
                extractSubjectChunks(divs[dIdx])))

\* spreadPenalty with the test of solver.go 264 off by one
spreadPenaltyStrict(dayCounts) ==
    LET minC == SeqMin(dayCounts)
        maxC == SeqMax(dayCounts)
    IN  IF maxC - minC >= 4 THEN (maxC - minC) * 5 ELSE 0

\* the penalty for the spread of the day loads (solver.go 255-266)
spreadPenalty(dayCounts) ==
    LET minC == SeqMin(dayCounts)
        maxC == SeqMax(dayCounts)
    IN  IF maxC - minC > 4 THEN (maxC - minC) * 5 ELSE 0

\* the day-load penalty of one division (solver.go 250-267)
balancePenalty(days) ==
    Call1(spreadPenalty, [day \in WeekDays |-> Len(days[day])])

\* scoreOf with the maps teacherUsed and classroomUsed made anew for every
\* division
scoreOfPerDivision(tts, divs) ==
    Call1(SeqSum, [d \in 1..Len(tts) |->
                      Call4(overlapScore, LessonsOfDiv(tts[d]), {}, {}, 0)])
    + Call1(SeqSum, [d \in 1..Len(divs) |-> allocationPenalty(tts, divs, d)])
    + Call1(SeqSum, [d \in 1..Len(tts) |-> balancePenalty(tts[d])])

\* the three parts of fitness (solver.go 165-269)
scoreOf(tts, divs) ==
    Call4(overlapScore, AllLessons(tts), {}, {}, 0)
    + Call1(SeqSum, [d \in 1..Len(divs) |-> allocationPenalty(tts, divs, d)])
    + Call1(SeqSum, [d \in 1..Len(tts) |-> balancePenalty(tts[d])])

\* fitness of the timetable contents tts for the divisions divs
fitness(tts, divs) == Call2(scoreOf, tts, divs)

----------------------------------------------------------------------------
(* Individuals in memory *)

\* Individual.Timetables as Solve holds it: per division and weekday the
\* address of the Day's backing array.  randomIndividual allocates one array
\* per Individual, division and weekday; nothing allocates a Day afterwards.
Addr(i, d, day) == <<i, d, day>>

FreshIndividual(i, nDiv) ==
    [d \in 1..nDiv |-> [day \in WeekDays |-> Addr(i, d, day)]]

\* the timetable contents an Individual has in heap h
Contents(h, ind) ==
    [d \in 1..Len(ind) |-> [day \in WeekDays |-> h[ind[d][day]]]]

\* the zero value of fitInd (solver.go 36)
ZeroFit == [ind |-> <<>>, fitness |-> 0]

\* the divisions of the instance of this run
Divs == Divisions(inp)

----------------------------------------------------------------------------
(* Recombination and mutation *)

\* crossover that reads the weekdays of p2 from its division at the mirrored
\* index
crossoverMirrored(p1, p2, dx, day1, day2) ==
    IF Len(p1) > 0
      THEN [p1 EXCEPT ![dx] =
              [[@ EXCEPT ![day1] = p2[Len(p2) + 1 - dx][day1]]
                  EXCEPT ![day2] = p2[Len(p2) + 1 - dx][day2]]]
      ELSE p1

\* crossover that writes the weekday day2 of p2 over the weekday day1
crossoverShifted(p1, p2, dx, day1, day2) ==
    IF Len(p1) > 0
      THEN [p1 EXCEPT ![dx] = [@ EXCEPT ![day1] = p2[dx][day2]]]
      ELSE p1

\* crossover with the draws dx, day1, day2 (solver.go 272-285): the copy of
\* p1.Timetables copies the five slice headers of every division
crossover(p1, p2, dx, day1, day2) ==
    IF Len(p1) > 0
      THEN [p1 EXCEPT ![dx] = [[@ EXCEPT ![day1] = p2[dx][day1]]
                                  EXCEPT ![day2] = p2[dx][day2]]]
      ELSE p1

\* the children crossover can return for the parents p1 and p2
crossoverOutcomes(p1, p2) ==
    IF Len(p1) > 0
      THEN {crossover(p1, p2, dx, day1, day2) :
               dx \in 1..Len(p1), day1 \in WeekDays, day2 \in WeekDays}
      ELSE {p1}

\* the draws of rand.Float64, in hundredths: values of [0,1)
FloatDraws == {0, 5, 50, 99}

\* swapSlots as two assignments in a row instead of one tuple assignment
swapSlotsInTurn(h, a, slot1, slot2) ==
    [h EXCEPT ![a] = [[@ EXCEPT ![slot1] = h[a][slot2]]
                         EXCEPT ![slot2] = h[a][slot2]]]

\* the swap of solver.go 297, in the backing array at address a
swapSlots(h, a, slot1, slot2) ==
    [h EXCEPT ![a] = [[@ EXCEPT ![slot1] = h[a][slot2]]
                         EXCEPT ![slot2] = h[a][slot1]]]

\* mutateAt without the test of solver.go 294 for days of one period or
\* none: rand.Intn(0) panics
mutateAtUnguarded(h, ind, dx, day) ==
    LET a == ind[dx][day]
    IN  IF Len(h[a]) = 0
          THEN {[heap |-> h, panic |-> TRUE]}
          ELSE {[heap |-> swapSlots(h, a, slot1, slot2), panic |-> FALSE] :
                   slot1 \in 1..Len(h[a]), slot2 \in 1..Len(h[a])}

\* mutate past its first test, with the draws dx and day (solver.go 292-298):
\* its outcomes [heap, panic]
mutateAt(h, ind, dx, day) ==
    LET a == ind[dx][day]
    IN  IF Len(h[a]) > 1
          THEN {[heap |-> swapSlots(h, a, slot1, slot2), panic |-> FALSE] :
                   slot1 \in 1..Len(h[a]), slot2 \in 1..Len(h[a])}
          ELSE {[heap |-> h, panic |-> FALSE]}

\* the outcomes of mutate(&ind) in heap h: [heap, panic]
mutate(h, ind, rate) ==
    UNION {IF draw > rate
             THEN {[heap |-> h, panic |-> FALSE]}
             ELSE IF Len(ind) = 0
               THEN {[heap |-> h, panic |-> TRUE]}
               ELSE UNION {mutateAt(h, ind, dx, day) :
                              dx \in 1..Len(ind), day \in WeekDays}
           : draw \in FloatDraws}

----------------------------------------------------------------------------
(* Solve *)

SolveInstances == {1, 2, 3, 4, 6, 7}

\* the population sizes a run is configured with
PopulationSizes == {-1, 0, 1, 2, 3}

\* the mutation rates tried, in hundredths: 0.1 as in app/main.go, 1, 0, and
\* the rates -0.1 and 1.5 that MutationRate float64 also takes
Rates == <<10, 100, 0, -10, 150>>

\* a Solver of population 10 and 50 generations, for InstSingle
SmallRun == [inp |-> 3, PopulationSize |-> 10, Generations |-> 50]

NoStep == [op |-> "none"]

\* no call of Solve has returned yet
NoRun == [returned |-> FALSE]

\* the Solver and the instance of a run (solver.go 13-17)
Configured ==
    /\ \/ /\ inp \in SolveInstances
          /\ PopulationSize \in PopulationSizes
          /\ Generations \in 0..MaxGen
          /\ \E k \in DOMAIN Rates : MutationRate = Rates[k]
       \/ /\ inp = SmallRun.inp
          /\ PopulationSize = SmallRun.PopulationSize
          /\ Generations = SmallRun.Generations
          /\ MutationRate = Rates[1]

\* the locals of Solve and the histories of a run before its first step
Entered ==
    [pc |-> "start", heap |-> <<>>, pop |-> <<>>, bestIndividual |-> <<>>,
     bestFitness |-> 0, g |-> 0, fits |-> <<>>, nextPop |-> <<>>,
     result |-> <<>>, initScores |-> <<>>, lastStep |-> NoStep, minSeen |-> 0]

Init ==
    /\ Configured
    /\ first = NoRun
    /\ minSeen = 0
    /\ pc = "start"
    /\ heap = <<>>
    /\ pop = <<>>
    /\ bestIndividual = <<>>
    /\ bestFitness = 0
    /\ g = 0
    /\ fits = <<>>
    /\ nextPop = <<>>
    /\ result = <<>>
    /\ initScores = <<>>
    /\ lastStep = NoStep
    /\ fInd = <<>>
    /\ fScore = 0
    /\ fPrev = <<>>
    /\ fPrevScore = 0
    /\ fOp = NoStep

\* solver.go 26-29: initializePopulation, then the first best
Initialize ==
    /\ pc = "start"
    /\ lastStep' = [op |-> "initialize"]
    /\ UNCHANGED <<inp, PopulationSize, Generations, MutationRate, g, fits,
                   nextPop, result, harnessVars>>
    /\ IF PopulationSize < 0
         THEN \* make([]Individual, n) with n < 0 panics
              /\ pc' = "panic"
              /\ UNCHANGED <<heap, pop, bestIndividual, bestFitness,
                             initScores, minSeen>>
         ELSE \E built \in [1..PopulationSize -> randomIndividual(Divs)] :
              /\ heap' = [a \in (1..PopulationSize) \X (1..Len(Divs))
                                   \X WeekDays |-> built[a[1]][a[2]][a[3]]]
              /\ pop' = [i \in 1..PopulationSize |->
                            FreshIndividual(i, Len(Divs))]
              /\ initScores' = [i \in 1..PopulationSize |->
                                   fitness(built[i], Divs)]
              /\ IF PopulationSize = 0
                   THEN \* pop[0] is out of range
                        /\ pc' = "panic"
                        /\ UNCHANGED <<bestIndividual, bestFitness, minSeen>>
                   ELSE /\ pc' = "loop"
                        /\ bestIndividual' = pop'[1]
                        /\ bestFitness' = fitness(built[1], Divs)
                        /\ minSeen' = initScores'[1]

\* one pass of the loop of solver.go 37-47 for pop[i], whose score is f
RECURSIVE evalLoop(_, _, _, _, _)
evalStep(i, h, fs, bf, bi, f) ==
    IF f < bf
      THEN IF f = 0
             THEN [fits |-> [fs EXCEPT ![i] = [ind |-> pop[i], fitness |-> f]],
                   bestFitness |-> f, bestIndividual |-> pop[i]]
             ELSE evalLoop(i + 1, h,
                           [fs EXCEPT ![i] = [ind |-> pop[i], fitness |-> f]],
                           f, pop[i])
      ELSE evalLoop(i + 1, h,
                    [fs EXCEPT ![i] = [ind |-> pop[i], fitness |-> f]],
                    bf, bi)

\* the loop over pop of solver.go 37-47 from index i on, with the break
evalLoop(i, h, fs, bf, bi) ==
    IF i > Len(pop)
      THEN [fits |-> fs, bestFitness |-> bf, bestIndividual |-> bi]
      ELSE CHOOSE r \in {evalStep(i, h, fs2, bf2, bi2, f) :
                            fs2 \in {fs}, bf2 \in {bf}, bi2 \in {bi},
                            f \in {fitness(Contents(h, pop[i]), Divs)}}
                      : TRUE

\* solver.go 31-51: one more generation is due; score the population
Evaluate ==
    /\ pc = "loop"
    /\ g < Generations
    /\ \E r \in {evalLoop(1, heap, [i \in 1..Len(pop) |-> ZeroFit],
                          bestFitness, bestIndividual)} :
           /\ fits' = r.fits
           /\ bestFitness' = r.bestFitness
           /\ bestIndividual' = r.bestIndividual
           /\ pc' = IF r.bestFitness = 0 THEN "return" ELSE "select"
           /\ minSeen' = SeqMin(<<minSeen>> \o
                            [k \in 1..Len(r.fits) |->
                                IF r.fits[k] = ZeroFit THEN minSeen
                                ELSE r.fits[k].fitness])
    /\ lastStep' = [op |-> "evaluate"]
    /\ UNCHANGED <<inp, PopulationSize, Generations, MutationRate, heap, pop,
                   g, nextPop, result, initScores, harnessVars>>

\* the orders sort.Slice may leave fs in: it is not stable
sortedOrders(fs) ==
    {perm \in [1..Len(fs) -> 1..Len(fs)] :
        /\ \A i, j \in 1..Len(fs) : i # j => perm[i] # perm[j]
        /\ \A i \in 1..(Len(fs) - 1) :
              fs[perm[i]].fitness <= fs[perm[i + 1]].fitness}

\* eliteSize that rounds the half up
eliteSizeUp(n) == (n + 1) \div 2

\* s.PopulationSize/2, the size of the elite (solver.go 56, 63, 64)
eliteSize(n) == n \div 2

\* solver.go 53-61: rank the generation, keep the top half
Select ==
    /\ pc = "select"
    /\ \E perm \in sortedOrders(fits) :
          /\ fits' = [k \in 1..Len(fits) |-> fits[perm[k]]]
          /\ nextPop' = [k \in 1..eliteSize(PopulationSize) |-> fits'[k].ind]
    /\ pc' = "reproduce"
    /\ lastStep' = [op |-> "select"]
    /\ UNCHANGED <<inp, PopulationSize, Generations, MutationRate, heap, pop,
                   bestIndividual, bestFitness, g, result, initScores,
                   minSeen, harnessVars>>

\* reproduceOutcomes with the parents drawn from the whole generation
reproduceOutcomesAll(h, fs, half, rate) ==
    UNION {UNION {{[child |-> child, heap |-> m.heap, panic |-> m.panic,
                    p1 |-> fs[i1].ind, p2 |-> fs[i2].ind] :
                      m \in mutate(h, child, rate)} :
                  child \in crossoverOutcomes(fs[i1].ind, fs[i2].ind)} :
           i1 \in 1..Len(fs), i2 \in 1..Len(fs)}

\* what one pass of the reproduction loop (solver.go 65-69) can produce
reproduceOutcomes(h, fs, half, rate) ==
    UNION {UNION {{[child |-> child, heap |-> m.heap, panic |-> m.panic,
                    p1 |-> fs[i1].ind, p2 |-> fs[i2].ind] :
                      m \in mutate(h, child, rate)} :
                  child \in crossoverOutcomes(fs[i1].ind, fs[i2].ind)} :
           i1 \in 1..half, i2 \in 1..half}

\* the number of children the generation has after one more
Born == IF lastStep.op = "reproduce" THEN lastStep.born + 1 ELSE 1

\* solver.go 64-72: one child, and the end of the generation after the last
Reproduce ==
    /\ pc = "reproduce"
    /\ Len(nextPop) < PopulationSize
    /\ UNCHANGED <<inp, PopulationSize, Generations, MutationRate,
                   bestIndividual, bestFitness, fits, result, initScores,
                   minSeen, harnessVars>>
    /\ IF eliteSize(PopulationSize) = 0
         THEN \* rand.Intn(0) panics
              /\ pc' = "panic"
              /\ lastStep' = [op |-> "reproduce", born |-> Born - 1]
              /\ UNCHANGED <<heap, pop, g, nextPop>>
         ELSE \E out \in reproduceOutcomes(heap, fits,
                                            eliteSize(PopulationSize),
                                            MutationRate) :
              /\ lastStep' = [op |-> "reproduce", born |-> Born,
                              p1 |-> out.p1, p2 |-> out.p2,
                              child |-> out.child]
              /\ heap' = out.heap
              /\ IF out.panic
                   THEN /\ pc' = "panic"
                        /\ UNCHANGED <<pop, g, nextPop>>
                   ELSE LET np == Append(nextPop, out.child)
                        IN  IF Len(np) < PopulationSize
                              THEN /\ nextPop' = np
                                   /\ pc' = "reproduce"
                                   /\ UNCHANGED <<pop, g>>
                              ELSE /\ nextPop' = np
                                   /\ pop' = np
                                   /\ g' = g + 1
                                   /\ pc' = "loop"

\* solver.go 75: the budget is used up or the best score is 0
Return ==
    /\ \/ pc = "return"
       \/ pc = "loop" /\ g >= Generations
    /\ result' = Contents(heap, bestIndividual)
    /\ pc' = "done"
    /\ lastStep' = [op |-> "return"]
    /\ UNCHANGED <<inp, PopulationSize, Generations, MutationRate, heap, pop,
                   bestIndividual, bestFitness, g, fits, nextPop, initScores,
                   minSeen, harnessVars>>

Next == Initialize \/ Evaluate \/ Select \/ Reproduce \/ Return

Spec == Init /\ [][Next]_vars

FairSpec == Spec /\ WF_vars(Next)

----------------------------------------------------------------------------
(* Solve called twice on the same Solver and Problem Instance *)

RerunInstances == {1, 6}

RerunInit ==
    /\ Init
    /\ inp \in RerunInstances
    /\ PopulationSize = 2
    /\ Generations \in {0, 1}
    /\ MutationRate = Rates[1]

\* the caller keeps what the first call returned and calls Solve again.
\* Whatever seed the caller gave math/rand, Solve replaces it with the clock
\* reading (solver.go 24): the draws of the second call are not bound to the
\* draws of the first.
Again ==
    /\ pc = "done"
    /\ ~first.returned
    /\ first' = [returned |-> TRUE, result |-> result]
    /\ pc' = Entered.pc
    /\ heap' = Entered.heap
    /\ pop' = Entered.pop
    /\ bestIndividual' = Entered.bestIndividual
    /\ bestFitness' = Entered.bestFitness
    /\ g' = Entered.g
    /\ fits' = Entered.fits
    /\ nextPop' = Entered.nextPop
    /\ result' = Entered.result
    /\ initScores' = Entered.initScores
    /\ lastStep' = Entered.lastStep
    /\ minSeen' = Entered.minSeen
    /\ UNCHANGED <<inp, PopulationSize, Generations, MutationRate, fInd,
                   fScore, fPrev, fPrevScore, fOp>>

RerunNext == Next \/ Again

RerunSpec == RerunInit /\ [][RerunNext]_vars

----------------------------------------------------------------------------
(* Evaluator harness: fitness applied to Individuals that no builder made *)

HarnessInstances == {2, 5}

\* the lessons an edit places: the lesson of any subject of the instance,
\* in one of its classrooms or in none
SubjectLessons(subj) ==
    {Lesson(subj, r) : r \in pickClassroom(subj) \cup {Nil}}

HarnessLessons(divs) ==
    UNION {UNION {SubjectLessons(divs[d].subjects[k]) :
                     k \in DOMAIN divs[d].subjects} : d \in DOMAIN divs}

\* the timetables with no period at all
EmptyTimetables(divs) == [d \in 1..Len(divs) |-> EmptyDays]

\* s without its element at index k
RemoveAt(s, k) == SubSeq(s, 1, k - 1) \o SubSeq(s, k + 1, Len(s))

\* the first unused parallel position of a SubjectsGroup, 0 if none
FreePosition(sg) ==
    IF \E p \in 1..GroupWidth : sg[p].gs = Nil
      THEN CHOOSE p \in 1..GroupWidth :
              /\ sg[p].gs = Nil
              /\ \A q \in 1..(p - 1) : sg[q].gs # Nil
      ELSE 0

HarnessInit ==
    /\ inp \in HarnessInstances
    /\ fInd \in randomIndividual(Divs) \cup {EmptyTimetables(Divs)}
    /\ fScore = fitness(fInd, Divs)
    /\ fPrev = fInd
    /\ fPrevScore = fScore
    /\ fOp = [kind |-> "none", n |-> 0]
    /\ PopulationSize = 0
    /\ Generations = 0
    /\ MutationRate = 0
    /\ pc = "harness"
    /\ heap = <<>>
    /\ pop = <<>>
    /\ bestIndividual = <<>>
    /\ bestFitness = 0
    /\ g = 0
    /\ fits = <<>>
    /\ nextPop = <<>>
    /\ result = <<>>
    /\ initScores = <<>>
    /\ lastStep = NoStep
    /\ minSeen = 0
    /\ first = NoRun

\* the harness goes from fInd to tts by the edit op and scores tts
Edited(tts, op) ==
    /\ fOp.n < MaxEdits
    /\ fInd' = tts
    /\ fScore' = fitness(tts, Divs)
    /\ fPrev' = fInd
    /\ fPrevScore' = fScore
    /\ fOp' = [op EXCEPT !.n = fOp.n + 1]
    /\ UNCHANGED solveVars

\* take out a period that holds a single lesson; later periods move up
RemovePeriod ==
    \E d \in DOMAIN fInd, day \in WeekDays :
        \E slot \in 1..Len(fInd[d][day]) :
            /\ fInd[d][day][slot][1].gs # Nil
            /\ FreePosition(fInd[d][day][slot]) = 2
            /\ Edited([fInd EXCEPT ![d][day] = RemoveAt(@, slot)],
                      [kind |-> "remove", d |-> d, day |-> day, slot |-> slot,
                       les |-> fInd[d][day][slot][1], n |-> 0])

\* append a period with one lesson to a weekday
AppendPeriod ==
    \E d \in DOMAIN fInd, day \in WeekDays, les \in HarnessLessons(Divs) :
        Edited([fInd EXCEPT ![d][day] = Append(@, SingleGroup(les))],
               [kind |-> "append", d |-> d, day |-> day,
                slot |-> Len(fInd[d][day]) + 1, les |-> les, n |-> 0])

\* put a lesson in the first unused parallel position of a period
AddParallel ==
    \E d \in DOMAIN fInd, day \in WeekDays, les \in HarnessLessons(Divs) :
        \E slot \in 1..Len(fInd[d][day]) :
            /\ FreePosition(fInd[d][day][slot]) > 0
            /\ Edited([fInd EXCEPT ![d][day][slot]
                                      [FreePosition(fInd[d][day][slot])] = les],
                      [kind |-> "parallel", d |-> d, day |-> day,
                       slot |-> slot, les |-> les, n |-> 0])

HarnessNext == RemovePeriod \/ AppendPeriod \/ AddParallel

HarnessSpec == HarnessInit /\ [][HarnessNext]_vars

----------------------------------------------------------------------------
(* Operator harness: crossover and mutate called on Individuals in any order *)

OperatorInstances == {1}

\* two Individuals from randomIndividual
OperatorInit ==
    /\ inp \in OperatorInstances
    /\ \E built \in [1..2 -> randomIndividual(Divs)] :
          /\ heap = [a \in (1..2) \X (1..Len(Divs)) \X WeekDays |->
                        built[a[1]][a[2]][a[3]]]
          /\ pop = [i \in 1..2 |-> FreshIndividual(i, Len(Divs))]
    /\ pc = "operators"
    /\ lastStep = [op |-> "none", n |-> 0]
    /\ PopulationSize = 0
    /\ Generations = 0
    /\ MutationRate = Rates[1]
    /\ bestIndividual = <<>>
    /\ bestFitness = 0
    /\ g = 0
    /\ fits = <<>>
    /\ nextPop = <<>>
    /\ result = <<>>
    /\ initScores = <<>>
    /\ minSeen = 0
    /\ first = NoRun
    /\ fInd = <<>>
    /\ fScore = 0
    /\ fPrev = <<>>
    /\ fPrevScore = 0
    /\ fOp = NoStep

\* child := s.crossover(p1, p2) for two Individuals held
Cross ==
    /\ pc = "operators"
    /\ lastStep.n < MaxOps
    /\ \E i1 \in DOMAIN pop, i2 \in DOMAIN pop :
          \E child \in crossoverOutcomes(pop[i1], pop[i2]) :
              /\ pop' = Append(pop, child)
              /\ lastStep' = [op |-> "crossover", n |-> lastStep.n + 1,
                              p1 |-> pop[i1], p2 |-> pop[i2],
                              child |-> child]
    /\ UNCHANGED <<inp, PopulationSize, Generations, MutationRate, pc, heap,
                   bestIndividual, bestFitness, g, fits, nextPop, result,
                   initScores, minSeen, harnessVars>>

\* s.mutate(&ind) for an Individual held
Mutate ==
    /\ pc = "operators"
    /\ lastStep.n < MaxOps
    /\ \E i \in DOMAIN pop :
          \E m \in mutate(heap, pop[i], MutationRate) :
              /\ pc' = IF m.panic THEN "panic" ELSE pc
              /\ heap' = m.heap
              /\ lastStep' = [op |-> "mutate", n |-> lastStep.n + 1,
                              ind |-> pop[i],
                              before |-> Contents(heap, pop[i])]
    /\ UNCHANGED <<inp, PopulationSize, Generations, MutationRate, pop,
                   bestIndividual, bestFitness, g, fits, nextPop, result,
                   initScores, minSeen, harnessVars>>

OperatorNext == Cross \/ Mutate

OperatorSpec == OperatorInit /\ [][OperatorNext]_vars

----------------------------------------------------------------------------
(* Properties of Solve *)

\* Solve holds a population
Running == pc \in {"loop", "select", "reproduce", "return", "done"}

\* every Individual Solve holds: the population, the scored generation, the
\* next population and the best-seen one
HeldIndividuals ==
    IF Running
      THEN {pop[i] : i \in DOMAIN pop}
           \cup {fits[i].ind : i \in {k \in DOMAIN fits : fits[k] # ZeroFit}}
           \cup {nextPop[i] : i \in DOMAIN nextPop}
           \cup {bestIndividual}
      ELSE {}

\* C1: a reproduction step (crossover, then mutate on the child) leaves the
\* timetable contents of every other Individual as they were: the scored
\* generation with both parents, the elite already in the next population
\* and the best-seen Individual.
C1_NoAliasing ==
    [][(pc = "reproduce" /\ lastStep'.op = "reproduce") =>
          /\ \A k \in DOMAIN fits :
                Contents(heap', fits[k].ind) = Contents(heap, fits[k].ind)
          /\ \A k \in DOMAIN nextPop :
                Contents(heap', nextPop[k]) = Contents(heap, nextPop[k])
          /\ Contents(heap', bestIndividual) = Contents(heap, bestIndividual)
      ]_vars

\* C2: with a population of at least 2, the Individual Solve returns scores
\* no worse than the best Individual of the initial population.
C2_ReturnNotWorseThanInitial ==
    (pc = "done" /\ PopulationSize >= 2) =>
        fitness(result, Divs) <= SeqMin(initScores)

\* C3: with a population size of 0 or 1 and a budget of at least one
\* generation, Solve performs no out-of-range index and no empty-range draw.
C3_SmallPopulationSafe ==
    (PopulationSize \in {0, 1} /\ Generations >= 1) => pc # "panic"

\* what C4 says of every state of a run with a population of at least 2
C4_StateOk ==
    /\ pc # "panic"
    /\ g <= Generations
    /\ (pc \in {"select", "reproduce"} \/ (pc = "loop" /\ g > 0))
          => bestFitness # 0
    /\ pc = "done" =>
          /\ bestFitness = 0 \/ g = Generations
          /\ Len(result) = Len(Divs)
          /\ \A d \in DOMAIN result : DOMAIN result[d] = WeekDays

\* C4: with a population of at least 2 Solve reaches no error state, starts
\* no selection or further generation once the best-seen score is 0, runs at
\* most the configured number of generations, and terminates returning one
\* 5-weekday timetable per division.
C4_Terminates ==
    /\ [](PopulationSize >= 2 => C4_StateOk)
    /\ [](PopulationSize >= 2 => <>(pc = "done"))

\* C4 witness: a run of two or more individuals that used up its budget
\* without reaching score 0 and returned.
C4_Witness ==
    /\ pc = "done"
    /\ PopulationSize >= 2
    /\ Generations >= 1
    /\ g = Generations
    /\ bestFitness > 0
    /\ Len(result) = Len(Divs)

\* chunk c lies on consecutive periods of one weekday of days
ChunkConsecutive(days, c) ==
    \E day \in WeekDays :
        \E start \in 1..(Len(days[day]) - c.size + 1) :
            \A k \in 0..(c.size - 1) :
                \E p \in 1..GroupWidth :
                    /\ days[day][start + k][p].gs = c.subj.gs
                    /\ days[day][start + k][p].teacher = c.subj.teacher

AllChunksConsecutive(tts, divs) ==
    \A d \in DOMAIN divs :
        LET chunks == extractSubjectChunks(divs[d])
        IN  \A i \in DOMAIN chunks : ChunkConsecutive(tts[d], chunks[i])

\* C6: every Individual of score 0 that Solve holds or returns has each
\* chunk on consecutive periods of a single weekday.
C6_ZeroScoreChunksConsecutive ==
    /\ \A ind \in HeldIndividuals :
          fitness(Contents(heap, ind), Divs) = 0
             => AllChunksConsecutive(Contents(heap, ind), Divs)
    /\ (pc = "done" /\ fitness(result, Divs) = 0)
          => AllChunksConsecutive(result, Divs)

\* the lessons of days that have the subject and teacher of subj
PlacedHours(days, subj) ==
    LET es == LessonsOfDiv(days)
    IN  Cardinality({k \in DOMAIN es :
                        /\ es[k].les.gs # Nil
                        /\ es[k].les.gs = subj.gs
                        /\ es[k].les.teacher = subj.teacher})

\* the hours the division asks for the subject and teacher of subj
RequiredHours(div, subj) ==
    SeqSum([s \in DOMAIN div.subjects |->
               IF /\ div.subjects[s].gs = subj.gs
                  /\ div.subjects[s].teacher = subj.teacher
                 THEN SeqSum(div.subjects[s].alloc) ELSE 0])

PeriodCount(days) == SeqSum([day \in WeekDays |-> Len(days[day])])

\* C7: right after initialization every Individual has, in every division,
\* exactly the required hours of every subject and teacher and as many
\* periods as the allocation vectors of the division add up to.
C7_BuilderExact ==
    (pc = "loop" /\ lastStep.op = "initialize") =>
        \A i \in DOMAIN pop :
            \A d \in DOMAIN Divs :
                LET days == Contents(heap, pop[i])[d]
                IN  /\ \A s \in DOMAIN Divs[d].subjects :
                          PlacedHours(days, Divs[d].subjects[s])
                             = RequiredHours(Divs[d], Divs[d].subjects[s])
                    /\ PeriodCount(days)
                          = SeqSum([s \in DOMAIN Divs[d].subjects |->
                                       SeqSum(Divs[d].subjects[s].alloc)])

\* C7 witness: a freshly built population for the instance with a
\* two-hour block.
C7_Witness ==
    /\ pc = "loop"
    /\ lastStep.op = "initialize"
    /\ inp = 1
    /\ PopulationSize >= 2
    /\ PeriodCount(Contents(heap, pop[2])[1]) = 7

\* C11: every Reproducing step that completes a generation is followed by
\* an Evaluating step of the new population, so no Individual is left
\* unscored when Solve returns.
C11_ReproduceThenEvaluate ==
    [][(lastStep.op = "reproduce" /\ pc = "loop") =>
          lastStep'.op = "evaluate"]_vars

\* the score the Individual ind has in the current heap
ScoreNow(ind) == fitness(Contents(heap, ind), Divs)

\* the survivors of the selection of this generation
Survivors == {nextPop[k] : k \in 1..(PopulationSize \div 2)}

\* fits holds the Individuals of pop, each once, in some order
FitsIsGeneration ==
    \E perm \in [1..Len(pop) -> 1..Len(pop)] :
        /\ \A i, j \in 1..Len(pop) : i # j => perm[i] # perm[j]
        /\ Len(fits) = Len(pop)
        /\ \A k \in 1..Len(pop) : fits[k].ind = pop[perm[k]]

\* C12: with a population of N >= 2, selection keeps floor(N/2) Individuals
\* of the current generation, no excluded Individual scores strictly lower
\* than a survivor, and both parents of every child are survivors.
C12_EliteSelection ==
    PopulationSize >= 2 =>
        /\ lastStep.op = "select" =>
              /\ Len(nextPop) = PopulationSize \div 2
              /\ FitsIsGeneration
              /\ \A k \in 1..(PopulationSize \div 2) : nextPop[k] = fits[k].ind
              /\ \A j \in (PopulationSize \div 2 + 1)..PopulationSize :
                    \A k \in 1..(PopulationSize \div 2) :
                        ScoreNow(fits[j].ind) >= ScoreNow(nextPop[k])
        /\ (lastStep.op = "reproduce" /\ pc # "panic") =>
              /\ lastStep.p1 \in Survivors
              /\ lastStep.p2 \in Survivors

\* C12 witness: a child bred in a generation of three whose excluded
\* Individual scored strictly higher than the survivor.
C12_Witness ==
    /\ PopulationSize = 3
    /\ lastStep.op = "reproduce"
    /\ pc # "panic"
    /\ lastStep.p1 \in Survivors
    /\ fits[3].fitness > fits[1].fitness

\* ind has one timetable per division, each of exactly 5 weekdays
WellShaped(ind) ==
    /\ Len(ind) = Len(Divs)
    /\ \A d \in 1..Len(ind) :
          /\ DOMAIN ind[d] = WeekDays
          /\ \A day \in WeekDays : ind[d][day] \in DOMAIN heap

\* C13: with N >= 2 the population has N Individuals at the start of every
\* generation, each with one timetable of 5 weekdays per division, and a
\* next generation is floor(N/2) elite survivors followed by N - floor(N/2)
\* children.
C13_PopulationShape ==
    PopulationSize >= 2 =>
        /\ pc = "loop" =>
              /\ Len(pop) = PopulationSize
              /\ \A i \in 1..Len(pop) : WellShaped(pop[i])
        /\ (pc = "loop" /\ lastStep.op = "reproduce") =>
              /\ \A k \in 1..(PopulationSize \div 2) : pop[k] = fits[k].ind
              /\ lastStep.born = PopulationSize - PopulationSize \div 2
              /\ pop[PopulationSize] = lastStep.child

\* C13 witness: a second generation of three, one survivor and two children.
C13_Witness ==
    /\ PopulationSize = 3
    /\ pc = "loop"
    /\ lastStep.op = "reproduce"
    /\ lastStep.born = 2
    /\ g = 1
    /\ Len(pop) = 3

\* a run on the two divisions that share their sole teacher, with a
\* population of at least 2
ClashRun == inp = 2 /\ PopulationSize >= 2

\* what C17 says of every state of such a run
C17_StateOk ==
    /\ pc # "panic"
    /\ \A ind \in HeldIndividuals : ScoreNow(ind) >= 1000
    /\ pc = "done" =>
          /\ g = Generations
          /\ fitness(result, Divs) = minSeen
          /\ fitness(result, Divs) >= 1000

SingleLessonRun ==
    /\ inp = SmallRun.inp
    /\ PopulationSize = SmallRun.PopulationSize
    /\ Generations = SmallRun.Generations

\* the lessons placed in the timetables tts
PlacedLessons(tts) ==
    LET es == AllLessons(tts)
    IN  Cardinality({k \in DOMAIN es : es[k].les.gs # Nil})

\* what C18 says of every state of such a run
C18_StateOk ==
    /\ pc \notin {"panic", "select", "reproduce"}
    /\ lastStep.op \notin {"select", "reproduce"}
    /\ g = 0
    /\ pc = "done" =>
          /\ fitness(result, Divs) = 0
          /\ PlacedLessons(result) = 1

\* C18: for one division with one subject of allocation [1,0,0,0,0], Solve
\* with population 10 and 50 generations returns an Individual of score 0
\* with exactly one lesson, and stops in the first generation without any
\* reproduction step.
C18_SingleLessonConverges ==
    /\ [](SingleLessonRun => C18_StateOk)
    /\ [](SingleLessonRun => <>(pc = "done"))

\* C18 witness: the run of population 10 returned after its first
\* evaluation.
C18_Witness ==
    /\ SingleLessonRun
    /\ pc = "done"
    /\ Len(pop) = 10
    /\ Len(fits) = 10
    /\ PlacedLessons(result) = 1

\* the Solver has a negative population size or a mutation probability
\* below 0 or above 1
InvalidConfiguration ==
    \/ PopulationSize < 0
    \/ MutationRate < 0
    \/ MutationRate > 100

\* C19: a configuration outside the valid ranges is rejected before the
\* population is initialized: Solve holds no population and starts no
\* generation with it.
C19_InvalidConfigurationRejected ==
    InvalidConfiguration =>
        /\ pop = <<>>
        /\ pc \notin {"loop", "select", "reproduce", "return", "done"}

\* C20: two runs of Solve on the same Problem Instance with the same seed,
\* population size, generation budget and mutation probability return
\* identical Individuals.
C20_SameSeedSameResult ==
    (pc = "done" /\ first.returned) => result = first.result

\* the weekdays of days with a lesson of the subject and teacher of subj
DaysWith(days, subj) ==
    {day \in WeekDays :
        \E k \in 1..Len(days[day]) :
            \E p \in 1..GroupWidth :
                /\ days[day][k][p].gs = subj.gs
                /\ days[day][k][p].teacher = subj.teacher}

\* the number of chunks of a subject requirement
ChunkCount(subj) ==
    Cardinality({k \in DOMAIN subj.alloc : subj.alloc[k] > 0})

\* C21: in every Individual the Candidate Builder makes, two different
\* chunks of one subject requirement lie on different weekdays: the subject
\* is on as many weekdays as it has chunks.
C21_ChunksOnDifferentDays ==
    (pc = "loop" /\ lastStep.op = "initialize") =>
        \A i \in DOMAIN pop :
            \A d \in DOMAIN Divs :
                \A s \in DOMAIN Divs[d].subjects :
                    Cardinality(DaysWith(Contents(heap, pop[i])[d],
                                         Divs[d].subjects[s]))
                       = ChunkCount(Divs[d].subjects[s])

\* the lesson les is built from a subject requirement of div and has one of
\* its acceptable classrooms, or none if it has no acceptable classroom
FromRequirement(div, les) ==
    \E s \in DOMAIN div.subjects :
        LET subj == div.subjects[s]
        IN  /\ les.gs = subj.gs
            /\ les.teacher = subj.teacher
            /\ IF Len(subj.rooms) = 0
                 THEN les.room = Nil
                 ELSE \E k \in 1..Len(subj.rooms) : les.room = subj.rooms[k]

\* every lesson of the timetables tts is as FromRequirement says
ClassroomsAcceptable(tts) ==
    \A d \in 1..Len(tts) :
        \A day \in WeekDays :
            \A k \in 1..Len(tts[d][day]) :
                \A p \in 1..GroupWidth :
                    tts[d][day][k][p].gs # Nil =>
                        FromRequirement(Divs[d], tts[d][day][k][p])

\* C22: in every Individual of every generation, and in the one returned,
\* the classroom of each lesson is one of the acceptable classrooms of its
\* subject requirement, and is unset exactly when there is none.
C22_ClassroomsAcceptable ==
    /\ \A ind \in HeldIndividuals : ClassroomsAcceptable(Contents(heap, ind))
    /\ pc = "done" => ClassroomsAcceptable(result)

\* C22 witness: after a generation with reproduction, an Individual holds a
\* lesson in the second acceptable classroom of its subject.
C22_Witness ==
    /\ inp = 1
    /\ pc = "loop"
    /\ g >= 1
    /\ lastStep.op = "reproduce"
    /\ \E k \in 1..2 :
          Contents(heap, pop[PopulationSize])[2][1][k][1].room = "R2"

\* C23: at every generation boundary and when Solve returns, the score of
\* the best-seen Individual, computed from its current contents, equals the
\* tracked best-seen score, which is the lowest score computed so far.
C23_BestSeenConsistent ==
    /\ pc = "loop" =>
          /\ ScoreNow(bestIndividual) = bestFitness
          /\ bestFitness = minSeen
    /\ pc = "done" =>
          /\ fitness(result, Divs) = bestFitness
          /\ bestFitness = minSeen

\* the (subject, teacher, group) of a lesson
LessonKey(les) == <<les.gs, les.teacher, les.group>>

\* the number of periods of a weekday and its multiset of (subject,
\* teacher, group) lessons, as the set of <<lesson, count>>
DayLayout(periods) ==
    LET cells == (1..Len(periods)) \X (1..GroupWidth)
        keyAt(x) == LessonKey(periods[x[1]][x[2]])
    IN  <<Len(periods),
          {<<keyAt(x), Cardinality({y \in cells : keyAt(y) = keyAt(x)})>> :
              x \in cells}>>

\* the layout of every weekday of every division of tts
Layout(tts) ==
    [d \in 1..Len(tts) |-> [day \in WeekDays |-> DayLayout(tts[d][day])]]

\* the unmet-allocation and day-imbalance parts of the score of tts
LayoutScore(tts) ==
    SeqSum([d \in 1..Len(Divs) |-> allocationPenalty(tts, Divs, d)])
    + SeqSum([d \in 1..Len(tts) |-> balancePenalty(tts[d])])

\* the timetable contents of the Individuals Solve holds or has returned
HeldContents ==
    {Contents(heap, ind) : ind \in HeldIndividuals}
       \cup (IF pc = "done" THEN {result} ELSE {})

\* C24: in every Individual of every generation each weekday of each
\* division has the number of periods and the multiset of (subject, teacher,
\* group) lessons of the Candidate Builder's output, so the unmet-allocation
\* and day-imbalance parts of the score are the same for all Individuals.
C24_LayoutInvariant ==
    \A built \in {randomIndividual(Divs)} :
        \A layouts \in {{Layout(ref) : ref \in built}} :
            \A scores \in {{LayoutScore(ref) : ref \in built}} :
                \A tts \in HeldContents :
                    /\ layouts = {Layout(tts)}
                    /\ scores = {LayoutScore(tts)}

\* C24 witness: after a generation an Individual whose periods are in an
\* order the Candidate Builder never makes.
C24_Witness ==
    /\ pc = "loop"
    /\ g >= 1
    /\ \E i \in DOMAIN pop :
          Contents(heap, pop[i]) \notin randomIndividual(Divs)

\* C26: with mutation probability 0 no child is ever mutated, whatever
\* rand.Float64 draws: a reproduction step changes no period of any Day.
C26_RateZeroNeverMutates ==
    [][(MutationRate = 0 /\ lastStep'.op = "reproduce") => heap' = heap]_vars

----------------------------------------------------------------------------
(* Properties of crossover and mutate *)

\* the divisions and weekdays where the timetables a and c differ
DiffDays(a, c) ==
    {x \in (1..Len(a)) \X WeekDays : a[x[1]][x[2]] # c[x[1]][x[2]]}

\* C14: the child of crossover(p1, p2) equals p1 except in at most two
\* weekdays of one division, where it equals p2; crossover leaves p1 and p2
\* as they were, and crossover(p, p) equals p.
C14_CrossoverFrame ==
    [][lastStep'.op = "crossover" =>
          LET c == Contents(heap', lastStep'.child)
              a == Contents(heap', lastStep'.p1)
              b == Contents(heap', lastStep'.p2)
              diff == DiffDays(a, c)
          IN  /\ Len(c) = Len(a)
              /\ Cardinality(diff) <= 2
              /\ \A x, y \in diff : x[1] = y[1]
              /\ \A x \in diff : c[x[1]][x[2]] = b[x[1]][x[2]]
              /\ a = Contents(heap, lastStep'.p1)
              /\ b = Contents(heap, lastStep'.p2)
              /\ lastStep'.p1 = lastStep'.p2 => c = a
      ]_vars

\* C14 witness: a child of two different parents that differs from the
\* first in a weekday taken from the second.
C14_Witness ==
    /\ lastStep.op = "crossover"
    /\ lastStep.p1 # lastStep.p2
    /\ DiffDays(Contents(heap, lastStep.p1),
                Contents(heap, lastStep.child)) # {}
    /\ DiffDays(Contents(heap, lastStep.p2),
                Contents(heap, lastStep.child)) # {}

\* the period indexes where the weekdays p and q differ
DiffSlots(p, q) == {k \in 1..Len(p) : p[k] # q[k]}

\* weekday q is weekday p with at most two of its periods swapped
SwapOf(p, q) ==
    /\ Len(q) = Len(p)
    /\ Cardinality(DiffSlots(p, q)) \in {0, 2}
    /\ \A i, j \in DiffSlots(p, q) : i # j => (q[i] = p[j] /\ q[j] = p[i])

\* C15: mutate swaps at most two periods of one weekday of one division of
\* the Individual: every weekday keeps its period count and its multiset of
\* periods, every other weekday is unchanged, and a weekday of fewer than 2
\* periods is left untouched.
C15_MutateFrame ==
    lastStep.op = "mutate" =>
        LET a == lastStep.before
            c == Contents(heap, lastStep.ind)
        IN  /\ Cardinality(DiffDays(a, c)) <= 1
            /\ \A d \in 1..Len(a) :
                  \A day \in WeekDays :
                      /\ SwapOf(a[d][day], c[d][day])
                      /\ Len(a[d][day]) < 2 => c[d][day] = a[d][day]

\* C15 witness: mutate swapped two periods of a child of crossover.
C15_Witness ==
    /\ lastStep.op = "mutate"
    /\ lastStep.n = 2
    /\ lastStep.ind = pop[3]
    /\ DiffDays(lastStep.before, Contents(heap, lastStep.ind)) # {}

\* the period sg holds one lesson, in its first parallel position
NoGap(sg) ==
    /\ sg[1].gs # Nil
    /\ \A p \in 2..GroupWidth : sg[p] = EmptyLesson

\* C16: in every Individual of every generation, every period of every
\* weekday holds a non-empty lesson in its first parallel position and empty
\* lessons in the other two.
C16_NoGaps ==
    /\ \A a \in DOMAIN heap : \A k \in 1..Len(heap[a]) : NoGap(heap[a][k])
    /\ \A d \in DOMAIN result :
          \A day \in WeekDays :
              \A k \in 1..Len(result[d][day]) : NoGap(result[d][day][k])

\* C16 witness: a population after a generation in which mutate moved a
\* period of a day of three.
C16_Witness ==
    /\ pc = "loop"
    /\ g >= 1
    /\ inp = 1
    /\ \E i \in DOMAIN pop :
          /\ Len(Contents(heap, pop[i])[1][1]) = 3
          /\ Contents(heap, pop[i])[1][1][2][1].gs = "S1"

----------------------------------------------------------------------------
(* Properties of fitness *)

\* the lessons of tts at a weekday and period index, over all divisions
LessonsAt(tts, day, slot) ==
    {tts[d][day][slot][p] :
        d \in {k \in DOMAIN tts : slot <= Len(tts[k][day])},
        p \in 1..GroupWidth} \ {EmptyLesson}

\* two lessons of tts at one weekday and period index have the same teacher
TeacherConflict(tts) ==
    LET es == AllLessons(tts)
    IN  \E i, j \in DOMAIN es :
            /\ i < j
            /\ es[i].les.gs # Nil /\ es[j].les.gs # Nil
            /\ es[i].day = es[j].day /\ es[i].slot = es[j].slot
            /\ es[i].les.teacher # Nil
            /\ es[i].les.teacher = es[j].les.teacher

\* two lessons of tts at one weekday and period index have the same room
ClassroomConflict(tts) ==
    LET es == AllLessons(tts)
    IN  \E i, j \in DOMAIN es :
            /\ i < j
            /\ es[i].les.gs # Nil /\ es[j].les.gs # Nil
            /\ es[i].day = es[j].day /\ es[i].slot = es[j].slot
            /\ es[i].les.room # Nil
            /\ es[i].les.room = es[j].les.room

\* max minus min weekday period count of one division
Spread(days) ==
    LET counts == {Len(days[day]) : day \in WeekDays}
    IN  (CHOOSE m \in counts : \A c \in counts : c <= m)
          - (CHOOSE m \in counts : \A c \in counts : m <= c)

Balanced(tts) == \A d \in DOMAIN tts : Spread(tts[d]) <= 4

\* every subject requirement of every division has its hours placed
AllocationsMet(tts, divs) ==
    \A d \in DOMAIN divs :
        \A s \in DOMAIN divs[d].subjects :
            PlacedHours(tts[d], divs[d].subjects[s])
               >= RequiredHours(divs[d], divs[d].subjects[s])

\* every subject requirement of every division has exactly its hours placed
AllocationsExact(tts, divs) ==
    \A d \in DOMAIN divs :
        \A s \in DOMAIN divs[d].subjects :
            PlacedHours(tts[d], divs[d].subjects[s])
               = RequiredHours(divs[d], divs[d].subjects[s])

\* C5: an Individual of score 0 holds, for every division and subject
\* requirement, exactly as many lessons of that subject and teacher as the
\* allocation vector adds up to, no fewer and no more.
C5_ZeroScoreExactHours ==
    (pc = "harness" /\ fScore = 0) => AllocationsExact(fInd, Divs)

\* the last edit took one hour of a required chunk out of an Individual of
\* score 0 with exact hours, and made no conflict and no imbalance
RemovedRequiredHour ==
    /\ pc = "harness"
    /\ fOp.kind = "remove"
    /\ fPrevScore = 0
    /\ AllocationsExact(fPrev, Divs)
    /\ LET chunks == extractSubjectChunks(Divs[fOp.d])
       IN  \E i \in DOMAIN chunks :
               /\ chunks[i].subj.gs = fOp.les.gs
               /\ chunks[i].subj.teacher = fOp.les.teacher
    /\ ~TeacherConflict(fInd)
    /\ ~ClassroomConflict(fInd)
    /\ Balanced(fInd)

\* C8: removing one placed hour of a required chunk from an Individual of
\* score 0, without making a conflict or an imbalance, raises the score by
\* exactly 500, also when the subject has several chunks.
C8_RemoveHourAdds500 ==
    RemovedRequiredHour => fScore = fPrevScore + 500

\* the last edit added to an Individual of score 0 one lesson whose teacher
\* already teaches at that weekday and period index, in a room that is free
\* there, and made no imbalance
AddedTeacherDuplicate ==
    /\ pc = "harness"
    /\ fOp.kind \in {"parallel", "append"}
    /\ fPrevScore = 0
    /\ fOp.les.teacher # Nil
    /\ \E les \in LessonsAt(fPrev, fOp.day, fOp.slot) :
           les.teacher = fOp.les.teacher
    /\ fOp.les.room # Nil =>
           \A les \in LessonsAt(fPrev, fOp.day, fOp.slot) :
               les.room # fOp.les.room
    /\ Balanced(fInd)

\* C9: one more lesson whose teacher already teaches at that weekday and
\* period index, added to an Individual of score 0 with everything else
\* unchanged, raises the score by exactly 1000.
C9_TeacherDuplicateAdds1000 ==
    AddedTeacherDuplicate => fScore = fPrevScore + 1000

\* C9 witness: a duplicate teacher put next to the lesson of another
\* division, scored 1000.
C9_Witness ==
    /\ AddedTeacherDuplicate
    /\ fOp.kind = "parallel"
    /\ fScore = 1000

\* no teacher or classroom is shared at a weekday and period index, every
\* allocation is met and every division has a spread of at most 4
Clean(tts, divs) ==
    /\ ~TeacherConflict(tts)
    /\ ~ClassroomConflict(tts)
    /\ AllocationsMet(tts, divs)
    /\ Balanced(tts)

\* C10: fitness is never negative, and it is 0 for every Individual with no
\* teacher or classroom conflict, no unmet allocation and a spread of at
\* most 4 in every division.
C10_FitnessZeroWhenClean ==
    pc = "harness" =>
        /\ fScore >= 0
        /\ Clean(fInd, Divs) => fScore = 0

\* C10 witness: an edited Individual without violation in which a division
\* has a spread of exactly 4, scored 0.
C10_Witness ==
    /\ pc = "harness"
    /\ fOp.kind = "append"
    /\ Clean(fInd, Divs)
    /\ \E d \in DOMAIN fInd : Spread(fInd[d]) = 4
    /\ fScore = 0

----------------------------------------------------------------------------
(* Properties of the Candidate Builder *)

\* the size of the largest chunk of a division, 0 if it has none
LargestChunk(div) ==
    LET sizes == {div.subjects[s].alloc[k] :
                     s \in DOMAIN div.subjects, k \in 1..NumDays} \cup {0}
    IN  CHOOSE m \in sizes : \A n \in sizes : n <= m

\* C25: in every Individual the Candidate Builder makes, the longest and the
\* shortest weekday of a division differ by at most the size of the largest
\* chunk of the division.
C25_GreedyBalance ==
    (pc = "loop" /\ lastStep.op = "initialize") =>
        \A i \in DOMAIN pop :
            \A d \in DOMAIN Divs :
                Spread(Contents(heap, pop[i])[d]) <= LargestChunk(Divs[d])

\* C25 witness: a built division whose spread is the size of its largest
\* chunk, a block of two hours, placed after five chunks of one hour.
C25_Witness ==
    /\ pc = "loop"
    /\ lastStep.op = "initialize"
    /\ inp = 1
    /\ LargestChunk(Divs[1]) = 2
    /\ Spread(Contents(heap, pop[1])[1]) = 2
    /\ Len(Contents(heap, pop[1])[1][1]) = 3

====
